---- MODULE Spec2Model ----
(***************************************************************************)
(* personal-spend: the ingestion pipeline (cli/src/ingest.ts) and the      *)
(* income/outflow aggregator of the web view (buildVisualization).         *)
(*                                                                         *)
(* Strings are sequences of one-character strings.  Money is an integer    *)
(* number of thousandths of a dollar (4500 is 4.50).                       *)
(***************************************************************************)
EXTENDS Integers, Sequences, FiniteSets, TLC

VARIABLES
  rulesFile,       \* categories.yml as loaded
  overridesFile,   \* overrides.yml as loaded
  catInput,        \* the transaction categoryFor was called with
  catResult,       \* what categoryFor returned
  inputFile,       \* the input CSV as parsed, or Absent; None where main does not run
  rows,            \* the rows readCsvRows returned
  transactions,    \* the normalized, categorized transactions
  pc,              \* where main is; loaded and viewing for the graph builders alone
  sankeyRuns,      \* what each run of buildSankeyData returned
  vizRuns,         \* what each run of buildVisualization returned
  written          \* the paths writeJsonFile has written, in order

vars == <<rulesFile, overridesFile, catInput, catResult, inputFile, rows, transactions, pc, sankeyRuns, vizRuns, written>>

None == [none |-> TRUE]

(***************************************************************************)
(* Characters                                                              *)
(***************************************************************************)
Lower == <<"a","b","c","d","e","f","g","h","i","j","k","l","m",
           "n","o","p","q","r","s","t","u","v","w","x","y","z">>

Upper == <<"A","B","C","D","E","F","G","H","I","J","K","L","M",
           "N","O","P","Q","R","S","T","U","V","W","X","Y","Z">>

Digits == <<"0","1","2","3","4","5","6","7","8","9">>

IndexIn(seq, c) == CHOOSE i \in 1..Len(seq) : seq[i] = c

IsIn(seq, c) == \E i \in 1..Len(seq) : seq[i] = c

IsDigit(c) == IsIn(Digits, c)

DigitValue(c) == IndexIn(Digits, c) - 1

\* the regular expression class \s, on the characters the model uses
IsSpace(c) == c \in {" ", "\t"}

toLowerCase(s) == [i \in 1..Len(s) |-> IF IsIn(Upper, s[i]) THEN Lower[IndexIn(Upper, s[i])] ELSE s[i]]

toUpperCase(s) == [i \in 1..Len(s) |-> IF IsIn(Lower, s[i]) THEN Upper[IndexIn(Lower, s[i])] ELSE s[i]]

RECURSIVE trimStart(_)
trimStart(s) == IF s # <<>> /\ IsSpace(Head(s)) THEN trimStart(Tail(s)) ELSE s

RECURSIVE trimEnd(_)
trimEnd(s) == IF s # <<>> /\ IsSpace(s[Len(s)]) THEN trimEnd(SubSeq(s, 1, Len(s) - 1)) ELSE s

trim(s) == trimEnd(trimStart(s))

\* value.replace(/\s+/g, " "): every maximal run of whitespace becomes one space
RECURSIVE collapseWhitespace(_)
collapseWhitespace(s) ==
  IF s = <<>> THEN <<>>
  ELSE IF IsSpace(Head(s)) THEN <<" ">> \o collapseWhitespace(trimStart(s))
  ELSE <<Head(s)>> \o collapseWhitespace(Tail(s))

normalizeText(value) == toLowerCase(trim(collapseWhitespace(value)))

\* String.prototype.includes
includes(haystack, needle) ==
  \E i \in 0..(Len(haystack) - Len(needle)) : SubSeq(haystack, i + 1, i + Len(needle)) = needle

(***************************************************************************)
(* Objects loaded from YAML.  A mapping is the sequence of its <<key,      *)
(* value>> pairs in the order the file declares them (keys are distinct);  *)
(* that is the order in which the object's properties are created.         *)
(***************************************************************************)
\* 2^32 - 2, the largest array index, as its decimal digits
MaxArrayIndex == <<"4","2","9","4","9","6","7","2","9","4">>

\* a < b for canonical decimal numerals (no leading zeros)
RECURSIVE digitsLess(_, _)
digitsLess(a, b) ==
  IF a = <<>> \/ b = <<>> THEN FALSE
  ELSE IF Head(a) # Head(b) THEN DigitValue(Head(a)) < DigitValue(Head(b))
  ELSE digitsLess(Tail(a), Tail(b))

numeralLess(a, b) == Len(a) < Len(b) \/ (Len(a) = Len(b) /\ digitsLess(a, b))

\* a property key that is a canonical array index ("0", "7", "365"; not "07")
IsArrayIndex(key) ==
  /\ key # <<>>
  /\ \A i \in 1..Len(key) : IsDigit(key[i])
  /\ (Len(key) > 1 => key[1] # "0")
  /\ ~numeralLess(MaxArrayIndex, key)

RECURSIVE insertByIndex(_, _)
insertByIndex(sorted, entry) ==
  IF sorted = <<>> THEN <<entry>>
  ELSE IF numeralLess(entry[1], Head(sorted)[1]) THEN <<entry>> \o sorted
  ELSE <<Head(sorted)>> \o insertByIndex(Tail(sorted), entry)

RECURSIVE sortByIndex(_)
sortByIndex(entries) ==
  IF entries = <<>> THEN <<>>
  ELSE insertByIndex(sortByIndex(SubSeq(entries, 1, Len(entries) - 1)), entries[Len(entries)])

IsIndexEntry(entry) == IsArrayIndex(entry[1])

IsNamedEntry(entry) == ~IsArrayIndex(entry[1])

\* Object.entries: array-index keys first, ascending by number, then the
\* other string keys in property-creation order
ObjectEntries(object) ==
  sortByIndex(SelectSeq(object, IsIndexEntry)) \o SelectSeq(object, IsNamedEntry)

(***************************************************************************)
(* String literals of the source                                           *)
(***************************************************************************)
S_Income == <<"I","n","c","o","m","e">>

S_Interest == <<"I","n","t","e","r","e","s","t">>

S_Uncategorized == <<"U","n","c","a","t","e","g","o","r","i","z","e","d">>

S_Transfers == <<"T","r","a","n","s","f","e","r","s">>

S_INT == <<"I","N","T">>

R_overrideId == <<"o","v","e","r","r","i","d","e",":","i","d">>

R_overrideNarrative == <<"o","v","e","r","r","i","d","e",":","n","a","r","r","a","t","i","v","e",":">>

R_rule == <<"r","u","l","e",":">>

R_fallbackCredit == <<"f","a","l","l","b","a","c","k",":","c","r","e","d","i","t">>

R_fallbackInt == <<"f","a","l","l","b","a","c","k",":","s","o","u","r","c","e","C","a","t","e","g","o","r","y","=","I","N","T">>

R_fallbackUncategorized == <<"f","a","l","l","b","a","c","k",":","u","n","c","a","t","e","g","o","r","i","z","e","d">>

(***************************************************************************)
(* buildCategoryMatcher                                                    *)
(***************************************************************************)
\* Array.prototype.find as the position of the first element satisfying
\* Test, 0 when there is none
FindIndex(array, Test(_)) ==
  IF \E i \in 1..Len(array) : Test(array[i])
  THEN CHOOSE i \in 1..Len(array) : Test(array[i]) /\ \A j \in 1..(i - 1) : ~Test(array[j])
  ELSE 0

buildCategoryMatcher(rules, overrides) ==
  LET byId == ObjectEntries(overrides.overrides)
      byNarrative == ObjectEntries(overrides.narrative_contains)
      byRule == ObjectEntries(rules.rules)
  IN [overridesById |-> [i \in 1..Len(byId) |-> <<trim(byId[i][1]), trim(byId[i][2])>>],
      narrativeOverrides |->
        [i \in 1..Len(byNarrative) |-> <<normalizeText(byNarrative[i][1]), trim(byNarrative[i][2])>>],
      ruleEntries |->
        [i \in 1..Len(byRule) |->
          [category |-> byRule[i][1],
           needles |-> [k \in 1..Len(byRule[i][2]) |-> normalizeText(byRule[i][2][k])]]]]

\* the fallbacks without the one for credits
fallbackFor_NoCreditFallback(transaction) ==
  IF toUpperCase(transaction.sourceCategory) = S_INT
  THEN [category |-> S_Interest, reason |-> R_fallbackInt]
  ELSE [category |-> S_Uncategorized, reason |-> R_fallbackUncategorized]

\* the end of categoryFor: the fallbacks when no override and no rule matched
fallbackFor(transaction) ==
  IF transaction.direction = "credit"
  THEN [category |-> S_Income, reason |-> R_fallbackCredit]
  ELSE IF toUpperCase(transaction.sourceCategory) = S_INT
  THEN [category |-> S_Interest, reason |-> R_fallbackInt]
  ELSE [category |-> S_Uncategorized, reason |-> R_fallbackUncategorized]

\* categoryFor with the narrative overrides consulted before the id overrides
categoryFor_NarrativeBeforeId(matcher, transaction) ==
  LET IdMatches(entry) == entry[1] = transaction.id
      NarrativeMatches(entry) == includes(transaction.narrativeNormalized, entry[1])
      idOverride == FindIndex(matcher.overridesById, IdMatches)
      narrativeOverride == FindIndex(matcher.narrativeOverrides, NarrativeMatches)
  IN IF narrativeOverride # 0
     THEN [category |-> matcher.narrativeOverrides[narrativeOverride][2],
           reason |-> R_overrideNarrative \o matcher.narrativeOverrides[narrativeOverride][1]]
     ELSE IF idOverride # 0
     THEN [category |-> matcher.overridesById[idOverride][2], reason |-> R_overrideId]
     ELSE [category |-> S_Uncategorized, reason |-> R_fallbackUncategorized]

categoryFor(matcher, transaction) ==
  LET IdMatches(entry) == entry[1] = transaction.id
      NeedleMatches(needle) == includes(transaction.narrativeNormalized, needle)
      NarrativeMatches(entry) == NeedleMatches(entry[1])
      \* if (matchedNeedle): the needle found is a string, and "" is falsy
      matchedNeedle(entry) == FindIndex(entry.needles, NeedleMatches)
      RuleMatches(entry) == matchedNeedle(entry) # 0 /\ entry.needles[matchedNeedle(entry)] # <<>>
      idOverride == FindIndex(matcher.overridesById, IdMatches)
      narrativeOverride == FindIndex(matcher.narrativeOverrides, NarrativeMatches)
      ruleEntry == FindIndex(matcher.ruleEntries, RuleMatches)
  IN IF idOverride # 0
     THEN [category |-> matcher.overridesById[idOverride][2], reason |-> R_overrideId]
     ELSE IF narrativeOverride # 0
     THEN [category |-> matcher.narrativeOverrides[narrativeOverride][2],
           reason |-> R_overrideNarrative \o matcher.narrativeOverrides[narrativeOverride][1]]
     ELSE IF ruleEntry # 0
     THEN LET entry == matcher.ruleEntries[ruleEntry]
          IN [category |-> entry.category,
              reason |-> R_rule \o entry.needles[matchedNeedle(entry)]]
     ELSE fallbackFor(transaction)

(***************************************************************************)
(* hashString and the transaction id                                       *)
(***************************************************************************)
HexDigits == <<"0","1","2","3","4","5","6","7","8","9","a","b","c","d","e","f">>

Punctuation == <<" ", "$", "*", ",", "-", ".", "/", ":", "_", "|">>

PunctuationCode == <<32, 36, 42, 44, 45, 46, 47, 58, 95, 124>>

charCode(c) ==
  IF IsIn(Lower, c) THEN 96 + IndexIn(Lower, c)
  ELSE IF IsIn(Upper, c) THEN 64 + IndexIn(Upper, c)
  ELSE IF IsDigit(c) THEN 48 + DigitValue(c)
  ELSE IF c = "\t" THEN 9
  ELSE PunctuationCode[IndexIn(Punctuation, c)]

TwoTo16 == 65536

\* hash = (hash * 31 + input.charCodeAt(i)) >>> 0, the 32-bit hash kept as
\* <<high 16 bits, low 16 bits>>
hashStep(hash, c) ==
  LET low == hash[2] * 31 + charCode(c)
  IN <<(hash[1] * 31 + low \div TwoTo16) % TwoTo16, low % TwoTo16>>

\* the loop of hashString over the characters of input, from hash; the
\* string is halved so that the evaluation stays shallow
RECURSIVE hashLoop(_, _)
hashLoop(hash, input) ==
  IF input = <<>> THEN hash
  ELSE IF Len(input) = 1 THEN hashStep(hash, input[1])
  ELSE LET middle == Len(input) \div 2
           half == hashLoop(hash, SubSeq(input, 1, middle))
       IN IF half[1] >= 0 THEN hashLoop(half, SubSeq(input, middle + 1, Len(input))) ELSE half

hashValue(input) == hashLoop(<<0, 0>>, input)

RECURSIVE toHex(_)
toHex(n) == IF n < 16 THEN <<HexDigits[n + 1]>> ELSE toHex(n \div 16) \o <<HexDigits[(n % 16) + 1]>>

RECURSIVE padStart(_, _, _)
padStart(s, width, fill) == IF Len(s) >= width THEN s ELSE padStart(<<fill>> \o s, width, fill)

\* hash.toString(16).padStart(8, "0")
hashString(input) ==
  LET hash == hashValue(input)
  IN <<"t", "x", "_">> \o padStart(toHex(hash[1]), 4, "0") \o padStart(toHex(hash[2]), 4, "0")

(***************************************************************************)
(* Transaction Normalizer                                                  *)
(***************************************************************************)
\* a field the row does not have
Undefined == <<"undefined">>

RECURSIVE takeDigits(_)
takeDigits(s) == IF s # <<>> /\ IsDigit(Head(s)) THEN <<Head(s)>> \o takeDigits(Tail(s)) ELSE <<>>

RECURSIVE digitsToInt(_)
digitsToInt(s) == IF s = <<>> THEN 0 ELSE 10 * digitsToInt(SubSeq(s, 1, Len(s) - 1)) + DigitValue(s[Len(s)])

Thousandths == 1000

\* the first three fraction digits, in thousandths
fractionToThousandths(digits) ==
  digitsToInt(SubSeq(digits \o <<"0", "0", "0">>, 1, 3))

\* Number.parseFloat on a string without whitespace: an optional sign, the
\* longest prefix of the shape digits[.digits] or .digits; NaN when there is
\* none.  The value is in thousandths.
parseFloat(s) ==
  LET signed == s # <<>> /\ Head(s) \in {"-", "+"}
      body == IF signed THEN Tail(s) ELSE s
      whole == takeDigits(body)
      rest == SubSeq(body, Len(whole) + 1, Len(body))
      fraction == IF rest # <<>> /\ Head(rest) = "." THEN takeDigits(Tail(rest)) ELSE <<>>
      magnitude == digitsToInt(whole) * Thousandths + fractionToThousandths(fraction)
  IN IF whole = <<>> /\ fraction = <<>>
     THEN [finite |-> FALSE, value |-> 0]
     ELSE [finite |-> TRUE, value |-> IF signed /\ Head(s) = "-" THEN 0 - magnitude ELSE magnitude]

IsMoneyNoise(c) == c \in {"$", ","} \/ IsSpace(c)

IsMoneyText(c) == ~IsMoneyNoise(c)

parseMoney(value) ==
  IF value = Undefined \/ value = <<>> THEN 0
  ELSE LET cleaned == trim(SelectSeq(value, IsMoneyText))
           numeric == parseFloat(cleaned)
       IN IF cleaned = <<>> THEN 0
          ELSE IF numeric.finite THEN numeric.value ELSE 0

\* String.prototype.split("/")
RECURSIVE split(_)
split(s) ==
  IF \E i \in 1..Len(s) : s[i] = "/"
  THEN LET i == CHOOSE k \in 1..Len(s) : s[k] = "/" /\ \A j \in 1..(k - 1) : s[j] # "/"
       IN <<SubSeq(s, 1, i - 1)>> \o split(SubSeq(s, i + 1, Len(s)))
  ELSE <<s>>

\* Number.parseInt(s, 10): leading whitespace skipped, an optional sign, the
\* longest prefix of digits; NaN when there is none
parseInt(s) ==
  LET t == trimStart(s)
      signed == t # <<>> /\ Head(t) \in {"-", "+"}
      digits == takeDigits(IF signed THEN Tail(t) ELSE t)
  IN IF digits = <<>>
     THEN [integer |-> FALSE, value |-> 0]
     ELSE [integer |-> TRUE,
           value |-> IF signed /\ Head(t) = "-" THEN 0 - digitsToInt(digits) ELSE digitsToInt(digits)]

RECURSIVE natToString(_)
natToString(n) == IF n < 10 THEN <<Digits[n + 1]>> ELSE natToString(n \div 10) \o <<Digits[(n % 10) + 1]>>

\* String(n) for an integer
intToString(n) == IF n < 0 THEN <<"-">> \o natToString(0 - n) ELSE natToString(n)

\* parseDate: the date as YYYY-MM-DD, or the thrown error
parseDate(dateValue) ==
  LET parts == split(trim(dateValue))
  IN IF Len(parts) # 3
     THEN [ok |-> FALSE, value |-> <<>>]
     ELSE LET day == parseInt(parts[1])
              month == parseInt(parts[2])
              year == parseInt(parts[3])
          IN IF ~day.integer \/ ~month.integer \/ ~year.integer
             THEN [ok |-> FALSE, value |-> <<>>]
             ELSE [ok |-> TRUE,
                   value |-> padStart(intToString(year.value), 4, "0") \o <<"-">>
                             \o padStart(intToString(month.value), 2, "0") \o <<"-">>
                             \o padStart(intToString(day.value), 2, "0")]

\* The prefixes inferMerchant strips: a one-character element matches that
\* character in either case, "\\s+" a run of whitespace, "\\d+" a run of
\* digits, "[-\\s]" one hyphen or whitespace character.
MerchantPrefixes ==
  << <<"D","E","P","O","S","I","T","[-\\s]","O","S","K","O"," ","P","A","Y","M","E","N","T","\\s+","\\d+","\\s+">>,
     <<"W","I","T","H","D","R","A","W","A","L","[-\\s]","O","S","K","O"," ","P","A","Y","M","E","N","T","\\s+","\\d+","\\s+">>,
     <<"W","I","T","H","D","R","A","W","A","L"," ","M","O","B","I","L","E","\\s+","\\d+","\\s+","T","F","R","\\s+">>,
     <<"P","A","Y","M","E","N","T"," ","B","Y"," ","A","U","T","H","O","R","I","T","Y"," ","T","O","\\s+">>,
     <<"D","E","P","O","S","I","T","\\s+">> >>

\* the length of the prefix of s the pattern matches, -1 when it does not
RECURSIVE matchPrefix(_, _)
matchPrefix(s, pattern) ==
  IF pattern = <<>> THEN 0
  ELSE LET element == Head(pattern)
           run == IF element = "\\s+" THEN Len(s) - Len(trimStart(s))
                  ELSE IF element = "\\d+" THEN Len(takeDigits(s))
                  ELSE IF s = <<>> THEN 0
                  ELSE IF element = "[-\\s]" THEN (IF Head(s) = "-" \/ IsSpace(Head(s)) THEN 1 ELSE 0)
                  ELSE IF toLowerCase(<<Head(s)>>) = toLowerCase(<<element>>) THEN 1 ELSE 0
           tail == IF run = 0 THEN -1 ELSE matchPrefix(SubSeq(s, run + 1, Len(s)), Tail(pattern))
       IN IF tail = -1 THEN -1 ELSE run + tail

\* s.replace(/^pattern/i, "")
stripPrefix(s, pattern) ==
  LET matched == matchPrefix(s, pattern)
  IN IF matched = -1 THEN s ELSE SubSeq(s, matched + 1, Len(s))

RECURSIVE stripPrefixes(_, _)
stripPrefixes(s, patterns) ==
  IF patterns = <<>> THEN s ELSE stripPrefixes(stripPrefix(s, Head(patterns)), Tail(patterns))

inferMerchant(narrative) ==
  LET cleaned == trim(stripPrefixes(collapseWhitespace(narrative), MerchantPrefixes))
  IN IF cleaned # <<>> THEN cleaned ELSE trim(narrative)

\* Number.prototype.toFixed(2) of an amount in thousandths, as the number of
\* hundredths: the nearest one, the larger of two equally near
roundToCents(x) == IF x >= 0 THEN (x + 5) \div 10 ELSE 0 - ((0 - x + 5) \div 10)

\* x.toFixed(2), the string
toFixed2(x) ==
  LET cents == roundToCents(x)
      magnitude == IF cents < 0 THEN 0 - cents ELSE cents
  IN (IF x < 0 THEN <<"-">> ELSE <<>>)
     \o natToString(magnitude \div 100) \o <<".">> \o padStart(natToString(magnitude % 100), 2, "0")

\* Number(x.toFixed(1)), in thousandths
round2_OneDecimal(x) == IF x >= 0 THEN ((x + 50) \div 100) * 100 ELSE 0 - (((0 - x + 50) \div 100) * 100)

\* Number(x.toFixed(2)), in thousandths
round2(x) == roundToCents(x) * 10

\* join("|")
RECURSIVE join(_)
join(parts) == IF Len(parts) = 1 THEN parts[1] ELSE parts[1] \o <<"|">> \o join(Tail(parts))

\* const amount = debitAmount > 0 ? debitAmount : creditAmount > 0 ? -creditAmount : 0
amountOf(debitAmount, creditAmount) ==
  IF debitAmount > 0 THEN debitAmount ELSE IF creditAmount > 0 THEN 0 - creditAmount ELSE 0

\* the direction with the credit amount tested first
directionOf_CreditFirst(debitAmount, creditAmount) ==
  IF creditAmount > 0 THEN "credit" ELSE IF debitAmount > 0 THEN "debit" ELSE "neutral"

\* const direction = debitAmount > 0 ? "debit" : creditAmount > 0 ? "credit" : "neutral"
directionOf(debitAmount, creditAmount) ==
  IF debitAmount > 0 THEN "debit" ELSE IF creditAmount > 0 THEN "credit" ELSE "neutral"

\* the callback of rows.map in normalizeTransactions; ok is FALSE when
\* parseDate throws
normalizeRow(row, index, categoryMatcher) ==
  LET debitAmount == parseMoney(row.DebitAmount)
      creditAmount == parseMoney(row.CreditAmount)
      amount == amountOf(debitAmount, creditAmount)
      direction == directionOf(debitAmount, creditAmount)
      narrative == trim(row.Narrative)
      narrativeNormalized == normalizeText(narrative)
      serial == IF row.Serial = Undefined THEN <<>> ELSE trim(row.Serial)
      idSignature == join(<<trim(row.Date), trim(row.BankAccount), narrativeNormalized,
                            toFixed2(debitAmount), toFixed2(creditAmount),
                            IF serial # <<>> THEN serial ELSE natToString(index)>>)
      date == parseDate(row.Date)
      baseTransaction ==
        [id |-> hashString(idSignature),
         date |-> date.value,
         accountId |-> trim(row.BankAccount),
         narrative |-> narrative,
         narrativeNormalized |-> narrativeNormalized,
         merchant |-> inferMerchant(narrative),
         debitAmount |-> debitAmount,
         creditAmount |-> creditAmount,
         amount |-> amount,
         direction |-> direction,
         balance |-> IF row.Balance = Undefined \/ row.Balance = <<>>
                     THEN <<"null">> ELSE <<parseMoney(row.Balance)>>,
         sourceCategory |-> IF row.Categories = Undefined THEN <<>> ELSE trim(row.Categories)]
      categorization == categoryFor(categoryMatcher, baseTransaction)
  IN [ok |-> date.ok,
      transaction |-> [field \in DOMAIN baseTransaction \cup {"category", "categoryReason"} |->
                        IF field = "category" THEN categorization.category
                        ELSE IF field = "categoryReason" THEN categorization.reason
                        ELSE baseTransaction[field]]]

\* normalizeTransactions: the transactions, or ok = FALSE when a row throws
normalizeTransactions(inputRows, categoryMatcher) ==
  LET normalized == [i \in 1..Len(inputRows) |-> normalizeRow(inputRows[i], i - 1, categoryMatcher)]
  IN [ok |-> \A i \in 1..Len(inputRows) : normalized[i].ok,
      transactions |-> [i \in 1..Len(inputRows) |-> normalized[i].transaction]]

(***************************************************************************)
(* Maps (insertion-ordered, as sequences of <<key, value>>) and sorting    *)
(***************************************************************************)
mapHas(map, key) == \E i \in 1..Len(map) : map[i][1] = key

mapGet(map, key) == map[CHOOSE i \in 1..Len(map) : map[i][1] = key][2]

\* Map.prototype.set: an existing key keeps its position
mapSet(map, key, value) ==
  IF mapHas(map, key)
  THEN [i \in 1..Len(map) |-> IF map[i][1] = key THEN <<key, value>> ELSE map[i]]
  ELSE Append(map, <<key, value>>)

\* Array.prototype.sort, which is stable: an element goes after the
\* elements before it that do not compare greater
stableSort(array, Less(_, _)) ==
  LET before(i) == {j \in 1..Len(array) :
                      Less(array[j], array[i]) \/ (~Less(array[i], array[j]) /\ j < i)}
  IN [r \in 1..Len(array) |-> array[CHOOSE i \in 1..Len(array) : Cardinality(before(i)) = r - 1]]

\* String.prototype.localeCompare in the root collation: whitespace, then
\* punctuation and symbols, then digits, then letters; case decides only
\* between strings equal otherwise, lower case first
CollationOrder ==
  <<"\t", " ", "_", "-", ",", ":", ".", "*", "/", "|", "$",
    "0", "1", "2", "3", "4", "5", "6", "7", "8", "9">> \o Lower

primaryWeight(c) == IndexIn(CollationOrder, toLowerCase(<<c>>)[1])

RECURSIVE primaryLess(_, _)
primaryLess(a, b) ==
  IF b = <<>> THEN FALSE
  ELSE IF a = <<>> THEN TRUE
  ELSE IF primaryWeight(Head(a)) # primaryWeight(Head(b)) THEN primaryWeight(Head(a)) < primaryWeight(Head(b))
  ELSE primaryLess(Tail(a), Tail(b))

RECURSIVE caseLess(_, _)
caseLess(a, b) ==
  IF a = <<>> \/ b = <<>> THEN FALSE
  ELSE IF Head(a) # Head(b) THEN IsIn(Lower, Head(a))
  ELSE caseLess(Tail(a), Tail(b))

\* a.localeCompare(b) < 0
localeLess(a, b) == primaryLess(a, b) \/ (~primaryLess(b, a) /\ caseLess(a, b))

byNameAscending(a, b) == localeLess(a[1], b[1])

byTotalDescending(a, b) == a[2] > b[2]

RECURSIVE sum(_)
sum(values) == IF values = <<>> THEN 0 ELSE sum(SubSeq(values, 1, Len(values) - 1)) + values[Len(values)]

(***************************************************************************)
(* Spend Flow-Graph Builder                                                *)
(***************************************************************************)
S_TotalSpend == <<"T","o","t","a","l"," ","S","p","e","n","d">>

S_AUD == <<"A","U","D">>

EXCLUDED_SPEND_CATEGORIES == {S_Income, S_Transfers}

IsSpendTransaction(transaction) ==
  /\ transaction.direction = "debit"
  /\ transaction.amount > 0
  /\ transaction.category \notin EXCLUDED_SPEND_CATEGORIES

\* categoryTotals after the aggregation loop
RECURSIVE sankeyCategoryTotals(_)
sankeyCategoryTotals(spend) ==
  IF spend = <<>> THEN <<>>
  ELSE LET totals == sankeyCategoryTotals(SubSeq(spend, 1, Len(spend) - 1))
           transaction == spend[Len(spend)]
           previous == IF mapHas(totals, transaction.category) THEN mapGet(totals, transaction.category) ELSE 0
       IN mapSet(totals, transaction.category, previous + transaction.amount)

\* merchantTotalsByCategory after the aggregation loop
RECURSIVE sankeyMerchantTotals(_)
sankeyMerchantTotals(spend) ==
  IF spend = <<>> THEN <<>>
  ELSE LET byCategory == sankeyMerchantTotals(SubSeq(spend, 1, Len(spend) - 1))
           transaction == spend[Len(spend)]
           merchantTotals == IF mapHas(byCategory, transaction.category)
                             THEN mapGet(byCategory, transaction.category) ELSE <<>>
           previous == IF mapHas(merchantTotals, transaction.merchant)
                       THEN mapGet(merchantTotals, transaction.merchant) ELSE 0
       IN mapSet(byCategory, transaction.category,
                 mapSet(merchantTotals, transaction.merchant, previous + transaction.amount))

\* nodes and nodeIndex after the names are offered in order; a category is
\* always pushed, a merchant only when nodeIndex does not have its name
RECURSIVE sankeyAddNodes(_, _, _)
sankeyAddNodes(graph, names, always) ==
  IF names = <<>> THEN graph
  ELSE sankeyAddNodes(
         IF always \/ ~mapHas(graph.nodeIndex, Head(names))
         THEN [nodes |-> Append(graph.nodes, [name |-> Head(names)]),
               nodeIndex |-> mapSet(graph.nodeIndex, Head(names), Len(graph.nodes))]
         ELSE graph,
         Tail(names), always)

keysOf(map) == [i \in 1..Len(map) |-> map[i][1]]

valuesOf(map) == [i \in 1..Len(map) |-> map[i][2]]

RECURSIVE flatten(_)
flatten(lists) == IF lists = <<>> THEN <<>> ELSE Head(lists) \o flatten(Tail(lists))

\* the links pushed for one sorted category: root -> category, then
\* category -> merchant for its merchants in sorted order
sankeyCategoryLinks(entry, merchantTotalsByCategory, nodeIndex) ==
  LET source == mapGet(nodeIndex, S_TotalSpend)
      target == mapGet(nodeIndex, entry[1])
      sortedMerchants == stableSort(mapGet(merchantTotalsByCategory, entry[1]), byNameAscending)
  IN <<[source |-> source, target |-> target, value |-> round2(entry[2])]>>
     \o [i \in 1..Len(sortedMerchants) |->
          [source |-> target,
           target |-> mapGet(nodeIndex, sortedMerchants[i][1]),
           value |-> round2(sortedMerchants[i][2])]]

\* the value returned with the time of generation put in the summary too
sankeyResult_TimeInSummary(now, nodes, links, totalSpend, transactionCount) ==
  [generatedAt |-> now,
   currency |-> S_AUD,
   nodes |-> nodes,
   links |-> links,
   summary |-> [totalSpend |-> round2(totalSpend), transactionCount |-> transactionCount,
                generatedAt |-> now]]

\* the value buildSankeyData returns; now is new Date().toISOString()
sankeyResult(now, nodes, links, totalSpend, transactionCount) ==
  [generatedAt |-> now,
   currency |-> S_AUD,
   nodes |-> nodes,
   links |-> links,
   summary |-> [totalSpend |-> round2(totalSpend), transactionCount |-> transactionCount]]

buildSankeyData(allTransactions, now) ==
  LET spendTransactions == SelectSeq(allTransactions, IsSpendTransaction)
      categoryTotals == sankeyCategoryTotals(spendTransactions)
      merchantTotalsByCategory == sankeyMerchantTotals(spendTransactions)
      sortedCategories == stableSort(categoryTotals, byNameAscending)
      root == [nodes |-> <<[name |-> S_TotalSpend]>>, nodeIndex |-> <<<<S_TotalSpend, 0>>>>]
      withCategories == sankeyAddNodes(root, keysOf(sortedCategories), TRUE)
      merchantNames == flatten([i \in 1..Len(merchantTotalsByCategory) |->
                                 keysOf(merchantTotalsByCategory[i][2])])
      graph == sankeyAddNodes(withCategories, merchantNames, FALSE)
      links == flatten([i \in 1..Len(sortedCategories) |->
                         sankeyCategoryLinks(sortedCategories[i], merchantTotalsByCategory, graph.nodeIndex)])
      totalSpend == sum(valuesOf(categoryTotals))
  IN sankeyResult(now, graph.nodes, links, totalSpend, Len(spendTransactions))

(***************************************************************************)
(* Income/Outflow Aggregator (buildVisualization)                          *)
(***************************************************************************)
S_OtherIncome == <<"O","t","h","e","r"," ","I","n","c","o","m","e">>

S_Savings == <<"S","a","v","i","n","g","s">>

S_TotalIncome == <<"T","o","t","a","l"," ","I","n","c","o","m","e">>

K_income == <<"i","n","c","o","m","e",":">>

K_category == <<"c","a","t","e","g","o","r","y",":">>

K_savingsBucket == <<"s","a","v","i","n","g","s",":","b","u","c","k","e","t">>

K_totalIncome == <<"t","o","t","a","l",":","i","n","c","o","m","e">>

EXCLUDED_CATEGORIES == {S_Transfers, S_Income}

CATEGORY_COLORS ==
  <<"#36b8ac", "#6b67f2", "#8f45e8", "#35bf72", "#8a62de", "#f48b2b", "#3d73e6",
    "#eb59a7", "#2ca2f6", "#ef5e4a", "#fc845b", "#8f9eb4", "#79c81d", "#d18f2f">>

ACCOUNT_COLORS == <<"#2f9ef6", "#4db7ff", "#18c5d5">>

MaxIncomeSources == 3

\* a quotient of two amounts, kept as the fraction
ratio(numerator, denominator) == [num |-> numerator, den |-> denominator]

\* the quotient taken the wrong way round
percentOf_Inverted(part, total) == IF total > 0 THEN ratio(total, part) ELSE ratio(0, 1)

\* total > 0 ? part / total : 0
percentOf(part, total) == IF total > 0 THEN ratio(part, total) ELSE ratio(0, 1)

\* formatPercent: "<1%" under one percent, else Math.round(value * 100) and "%"
formatPercent(value) ==
  IF value.num > 0 /\ value.num * 100 < value.den
  THEN <<"<", "1", "%">>
  ELSE intToString((200 * value.num + value.den) \div (2 * value.den)) \o <<"%">>

IsCategorizedIncome(transaction) ==
  /\ transaction.direction = "credit"
  /\ transaction.amount < 0
  /\ transaction.category = S_Income

IsFallbackIncome(transaction) ==
  /\ transaction.direction = "credit"
  /\ transaction.amount < 0
  /\ transaction.category # S_Transfers

IsOutflowTransaction(transaction) ==
  /\ transaction.direction = "debit"
  /\ transaction.amount > 0
  /\ transaction.category \notin EXCLUDED_CATEGORIES

\* incomeBySource after the loop over the income transactions
RECURSIVE vizIncomeBySource(_)
vizIncomeBySource(income) ==
  IF income = <<>> THEN <<>>
  ELSE LET bySource == vizIncomeBySource(SubSeq(income, 1, Len(income) - 1))
           transaction == income[Len(income)]
           sourceName == IF transaction.merchant # <<>> THEN transaction.merchant
                         ELSE IF transaction.narrative # <<>> THEN transaction.narrative
                         ELSE S_Income
           amount == IF transaction.amount < 0 THEN 0 - transaction.amount ELSE transaction.amount
           previous == IF mapHas(bySource, sourceName) THEN mapGet(bySource, sourceName) ELSE 0
       IN mapSet(bySource, sourceName, previous + amount)

\* categoryTotals after the loop over the spend transactions; the value of
\* a category is <<total, count>>
RECURSIVE vizCategoryTotals(_)
vizCategoryTotals(spend) ==
  IF spend = <<>> THEN <<>>
  ELSE LET totals == vizCategoryTotals(SubSeq(spend, 1, Len(spend) - 1))
           transaction == spend[Len(spend)]
       IN IF mapHas(totals, transaction.category)
          THEN LET existing == mapGet(totals, transaction.category)
               IN mapSet(totals, transaction.category, <<existing[1] + transaction.amount, existing[2] + 1>>)
          ELSE mapSet(totals, transaction.category, <<transaction.amount, 1>>)

byCategoryTotalDescending(a, b) == a[2][1] > b[2][1]

\* compactIncomeSources with the remainder taken one source too late
vizCompactIncomeSources_RemainderOffByOne(rawIncomeSources) ==
  LET kept == SubSeq(rawIncomeSources, 1, IF Len(rawIncomeSources) < MaxIncomeSources
                                          THEN Len(rawIncomeSources) ELSE MaxIncomeSources)
      otherTotal == sum(valuesOf(SubSeq(rawIncomeSources, MaxIncomeSources + 2, Len(rawIncomeSources))))
  IN IF Len(rawIncomeSources) > MaxIncomeSources /\ otherTotal > 0
     THEN Append(kept, <<S_OtherIncome, otherTotal>>)
     ELSE kept

\* compactIncomeSources: the first three sources, and Other Income for a
\* positive remainder
vizCompactIncomeSources(rawIncomeSources) ==
  LET kept == SubSeq(rawIncomeSources, 1, IF Len(rawIncomeSources) < MaxIncomeSources
                                          THEN Len(rawIncomeSources) ELSE MaxIncomeSources)
      otherTotal == sum(valuesOf(SubSeq(rawIncomeSources, MaxIncomeSources + 1, Len(rawIncomeSources))))
  IN IF Len(rawIncomeSources) > MaxIncomeSources /\ otherTotal > 0
     THEN Append(kept, <<S_OtherIncome, otherTotal>>)
     ELSE kept

outflowKey(outflow) == IF outflow.category = S_Savings THEN K_savingsBucket ELSE K_category \o outflow.category

outflowKind(outflow) == IF outflow.category = S_Savings THEN "savings" ELSE "category"

\* nodeIndex after the keys are set to consecutive positions from first
RECURSIVE vizSetKeys(_, _, _)
vizSetKeys(nodeIndex, keys, first) ==
  IF keys = <<>> THEN nodeIndex
  ELSE vizSetKeys(mapSet(nodeIndex, Head(keys), first), Tail(keys), first + 1)

\* savings without the floor at 0
vizSavings_Signed(totalIncome, totalSpend) == totalIncome - totalSpend

\* const savings = Math.max(0, totalIncome - totalSpend)
vizSavings(totalIncome, totalSpend) ==
  IF totalIncome - totalSpend > 0 THEN totalIncome - totalSpend ELSE 0

\* outflowStats with the Savings bucket never pushed
vizOutflowStats_NoSavings(categoryStats, savings, totalIncome) == categoryStats

\* outflowStats: the category buckets, and the Savings bucket pushed after
\* them when savings > 0
vizOutflowStats(categoryStats, savings, totalIncome) ==
  IF savings > 0
  THEN Append(categoryStats,
              [category |-> S_Savings, total |-> savings, count |-> 0,
               percent |-> percentOf(savings, totalIncome), color |-> "#49d3a2"])
  ELSE categoryStats

buildVisualization(allTransactions) ==
  LET categorizedIncomeTransactions == SelectSeq(allTransactions, IsCategorizedIncome)
      fallbackIncomeTransactions == SelectSeq(allTransactions, IsFallbackIncome)
      incomeTransactions == IF Len(categorizedIncomeTransactions) > 0
                            THEN categorizedIncomeTransactions ELSE fallbackIncomeTransactions
      rawIncomeSources == stableSort(vizIncomeBySource(incomeTransactions), byTotalDescending)
      compactIncomeSources == vizCompactIncomeSources(rawIncomeSources)
      totalIncome == sum(valuesOf(compactIncomeSources))
      incomeStats == [i \in 1..Len(compactIncomeSources) |->
                       [source |-> compactIncomeSources[i][1],
                        total |-> compactIncomeSources[i][2],
                        percent |-> percentOf(compactIncomeSources[i][2], totalIncome),
                        color |-> ACCOUNT_COLORS[((i - 1) % Len(ACCOUNT_COLORS)) + 1]]]
      spendTransactions == SelectSeq(allTransactions, IsOutflowTransaction)
      totalSpend == sum([i \in 1..Len(spendTransactions) |-> spendTransactions[i].amount])
      savings == vizSavings(totalIncome, totalSpend)
      sortedCategories == stableSort(vizCategoryTotals(spendTransactions), byCategoryTotalDescending)
      categoryStats == [i \in 1..Len(sortedCategories) |->
                         [category |-> sortedCategories[i][1],
                          total |-> sortedCategories[i][2][1],
                          count |-> sortedCategories[i][2][2],
                          percent |-> percentOf(sortedCategories[i][2][1], totalSpend),
                          color |-> CATEGORY_COLORS[((i - 1) % Len(CATEGORY_COLORS)) + 1]]]
      outflowStats == vizOutflowStats(categoryStats, savings, totalIncome)
      incomeNodes == [i \in 1..Len(incomeStats) |->
                       [name |-> incomeStats[i].source, kind |-> "income", color |-> incomeStats[i].color,
                        value |-> incomeStats[i].total, percent |-> incomeStats[i].percent,
                        labelMain |-> incomeStats[i].source,
                        labelPercent |-> formatPercent(incomeStats[i].percent)]]
      totalNode == [name |-> S_TotalIncome, kind |-> "total", color |-> "#7f8b98",
                    value |-> totalIncome, percent |-> ratio(1, 1),
                    labelMain |-> S_TotalIncome, labelPercent |-> <<>>]
      outflowNodes == [i \in 1..Len(outflowStats) |->
                        [name |-> outflowStats[i].category, kind |-> outflowKind(outflowStats[i]),
                         color |-> outflowStats[i].color, value |-> outflowStats[i].total,
                         percent |-> percentOf(outflowStats[i].total, totalIncome),
                         labelMain |-> outflowStats[i].category,
                         labelPercent |-> formatPercent(percentOf(outflowStats[i].total, totalIncome))]]
      nodes == incomeNodes \o <<totalNode>> \o outflowNodes
      incomeKeys == [i \in 1..Len(incomeStats) |-> K_income \o incomeStats[i].source]
      outflowKeys == [i \in 1..Len(outflowStats) |-> outflowKey(outflowStats[i])]
      nodeIndex == vizSetKeys(<<>>, incomeKeys \o <<K_totalIncome>> \o outflowKeys, 0)
      totalNodeIndex == mapGet(nodeIndex, K_totalIncome)
      incomeLinks == [i \in 1..Len(incomeStats) |->
                       [source |-> mapGet(nodeIndex, incomeKeys[i]), target |-> totalNodeIndex,
                        value |-> round2(incomeStats[i].total), color |-> incomeStats[i].color,
                        kind |-> "income"]]
      outflowLinks == [i \in 1..Len(outflowStats) |->
                        [source |-> totalNodeIndex, target |-> mapGet(nodeIndex, outflowKeys[i]),
                         value |-> round2(outflowStats[i].total), color |-> outflowStats[i].color,
                         kind |-> outflowKind(outflowStats[i])]]
  IN [sankey |-> [nodes |-> nodes, links |-> incomeLinks \o outflowLinks],
      totalIncome |-> round2(totalIncome),
      totalSpend |-> round2(totalSpend),
      savings |-> round2(savings),
      spendCount |-> Len(spendTransactions),
      incomeStats |-> incomeStats,
      categoryStats |-> categoryStats,
      outflowCount |-> Len(outflowStats)]

(***************************************************************************)
(* Configurations the matcher is built from                                *)
(***************************************************************************)
MaxIdOverrides == 1

MaxNarrativeOverrides == 2

MaxRuleCategories == 2

MaxNeedles == 2

\* the mappings of at most n entries with distinct keys, as declared
Mappings(Keys, Values, n) ==
  UNION { { m \in [1..k -> Keys \X Values] : \A i, j \in 1..k : i # j => m[i][1] # m[j][1] } : k \in 0..n }

\* the lists of 1..n distinct elements
Lists(Elements, n) ==
  UNION { { l \in [1..k -> Elements] : \A i, j \in 1..k : i # j => l[i] # l[j] } : k \in 1..n }

Row(date, narrative, debit, credit, categories, serial) ==
  [BankAccount |-> <<"1", "2", "3">>, Date |-> date, Narrative |-> narrative,
   DebitAmount |-> debit, CreditAmount |-> credit, Balance |-> Undefined,
   Categories |-> categories, Serial |-> serial]

GoodDate == <<"0","5","/","0","3","/","2","0","2","6">>

BadDate == <<"2","0","2","6","-","0","3","-","0","5">>

NarrativeA7 == <<"A"," ","\t","7">>

NarrativeDeposit == <<"D","e","p","o","s","i","t"," ","b">>

NoRules == [rules |-> <<>>]

NoOverrides == [overrides |-> <<>>, narrative_contains |-> <<>>]

\* the id of the row with a debit of 4.50 and narrative "A  7" at position 0
TxIdA ==
  normalizeRow(Row(GoodDate, NarrativeA7, <<"$", "4", ".", "5", "0">>, <<>>, <<>>, Undefined), 0,
               buildCategoryMatcher(NoRules, NoOverrides)).transaction.id

TxIdB == hashString(<<"b">>)

IdKeys == {TxIdA, <<" ">> \o TxIdB \o <<" ">>}

CategoryValues == {<<"F","u","n">>, <<" ","P","e","t"," ">>}

NarrativeNeedles == {<<"A"," ">>, <<"7">>}

RuleCategories == {<<"F","o","o","d">>, <<"3","6","5">>}

RuleNeedles == {<<"A"," ">>, <<" ">>}

OverridesFiles ==
  [overrides : Mappings(IdKeys, CategoryValues, MaxIdOverrides),
   narrative_contains : Mappings(NarrativeNeedles, CategoryValues, MaxNarrativeOverrides)]

RulesFiles == [rules : Mappings(RuleCategories, Lists(RuleNeedles, MaxNeedles), MaxRuleCategories)]

Narratives == {NarrativeA7, <<"b">>}

Directions == {"debit", "credit", "neutral"}

SourceCategories == {<<>>, <<"i","n","t">>}

CategoryForInputs ==
  [id : {TxIdA, TxIdB},
   narrativeNormalized : {normalizeText(n) : n \in Narratives},
   direction : Directions,
   sourceCategory : SourceCategories]

matcher == buildCategoryMatcher(rulesFile, overridesFile)

(***************************************************************************)
(* SpecCategoryFor: categoryFor applied to one transaction                 *)
(***************************************************************************)
InitCategoryFor ==
  /\ rulesFile \in RulesFiles
  /\ overridesFile \in OverridesFiles
  /\ catInput = None
  /\ catResult = None
  /\ inputFile = None
  /\ written = <<>>
  /\ rows = <<>>
  /\ transactions = <<>>
  /\ pc = "categoryFor"
  /\ sankeyRuns = <<>>
  /\ vizRuns = <<>>

CategoryFor ==
  \E transaction \in CategoryForInputs :
    /\ catInput = None
    /\ catInput' = transaction
    /\ catResult' = categoryFor(matcher, transaction)
    /\ UNCHANGED <<rulesFile, overridesFile, rows, transactions, pc, sankeyRuns, vizRuns, inputFile, written>>

NextCategoryFor == CategoryFor

SpecCategoryFor == InitCategoryFor /\ [][NextCategoryFor]_vars

(***************************************************************************)
(* Precedence of the categorization engine                                 *)
(***************************************************************************)
categorized == catResult # None

\* the declared id overrides, narrative overrides and rule needles that
\* apply to the transaction categorized
IdOverrideApplies(entry) == trim(entry[1]) = catInput.id

NarrativeOverrideApplies(entry) == includes(catInput.narrativeNormalized, normalizeText(entry[1]))

NeedleApplies(needle) == includes(catInput.narrativeNormalized, normalizeText(needle))

RuleApplies(entry) == \E k \in 1..Len(entry[2]) : NeedleApplies(entry[2][k])

hasIdOverride == \E i \in 1..Len(overridesFile.overrides) : IdOverrideApplies(overridesFile.overrides[i])

hasNarrativeOverride ==
  \E i \in 1..Len(overridesFile.narrative_contains) :
    NarrativeOverrideApplies(overridesFile.narrative_contains[i])

hasRule == \E i \in 1..Len(rulesFile.rules) : RuleApplies(rulesFile.rules[i])

\* C1: a transaction whose id is a key of the id-override map gets that
\* override's category with reason override:id, whatever narrative override
\* or rule matches its narrative and whatever its direction and sourceCategory
C1_IdOverrideWins ==
  categorized =>
    \A i \in 1..Len(overridesFile.overrides) :
      IdOverrideApplies(overridesFile.overrides[i]) =>
        catResult = [category |-> trim(overridesFile.overrides[i][2]), reason |-> R_overrideId]

C1_Witness ==
  /\ categorized
  /\ hasIdOverride
  /\ hasNarrativeOverride
  /\ hasRule
  /\ catInput.direction = "credit"
  /\ catResult.reason = R_overrideId

\* C2: with no id override, when some narrative-override needle is a
\* substring of the normalized narrative the result is the category of the
\* first such needle in declaration order, reason override:narrative:<needle>,
\* even when a rule needle matches too
C2_FirstDeclaredNarrativeOverrideWins ==
  (categorized /\ ~hasIdOverride /\ hasNarrativeOverride) =>
    LET declared == overridesFile.narrative_contains
        first == declared[FindIndex(declared, NarrativeOverrideApplies)]
    IN catResult = [category |-> trim(first[2]), reason |-> R_overrideNarrative \o normalizeText(first[1])]

\* C3: with no id override and no narrative override, when some rule needle
\* is a substring of the normalized narrative the result is the first
\* category in declaration order that has a matching needle, and the reason
\* names that category's first matching needle in declaration order
C3_FirstDeclaredRuleWins ==
  (categorized /\ ~hasIdOverride /\ ~hasNarrativeOverride /\ hasRule) =>
    LET declared == rulesFile.rules
        first == declared[FindIndex(declared, RuleApplies)]
    IN catResult = [category |-> first[1],
                    reason |-> R_rule \o normalizeText(first[2][FindIndex(first[2], NeedleApplies)])]

(***************************************************************************)
(* Spec: one execution of main, from the rows read to the graph built      *)
(***************************************************************************)
MaxRows == 2

MaxRuns == 2

DebitAmounts == {Undefined, <<"$", "4", ".", "5", "0">>, <<"-", "2">>}

CreditAmounts == {<<>>, <<"1", ",", "0", "0", "0", ".", "0", "0", "4">>, <<"x">>}

RowPool ==
  {Row(GoodDate, NarrativeA7, debit, credit, <<>>, Undefined) :
     debit \in DebitAmounts, credit \in CreditAmounts}
  \cup {Row(GoodDate, NarrativeDeposit, debit, <<>>, <<"i", "n", "t">>, Undefined) :
     debit \in DebitAmounts}
  \cup {Row(BadDate, NarrativeA7, <<"$", "4", ".", "5", "0">>, <<>>, <<>>, Undefined)}

RowLists == UNION {[1..n -> RowPool] : n \in 0..MaxRows}

MainRulesFiles ==
  {NoRules,
   [rules |-> <<<<<<"F","o","o","d">>, <<<<"A", " ">>>>>>>>],
   [rules |-> <<<<<<"F","o","o","d">>, <<<<" ">>, <<"A", " ">>>>>>>>]}

MainOverridesFiles == {NoOverrides, [overrides |-> <<<<TxIdA, <<"F","u","n">>>>>>, narrative_contains |-> <<>>]}

Init ==
  /\ rulesFile \in MainRulesFiles
  /\ overridesFile \in MainOverridesFiles
  /\ catInput = None
  /\ catResult = None
  /\ inputFile = None
  /\ written = <<>>
  /\ rows \in RowLists
  /\ transactions = <<>>
  /\ pc = "start"
  /\ sankeyRuns = <<>>
  /\ vizRuns = <<>>

\* the paths main writes, in the order of its writeJsonFile calls: three in
\* the output directory, then three in web/public
OutputPaths ==
  <<"outDir/transactions.json", "outDir/sankey.json", "outDir/uncategorized.json",
    "web/public/sankey.json", "web/public/uncategorized.json", "web/public/transactions.json">>

\* normalizeTransactions writing transactions.json before it rethrows
NormalizeTransactions_WritesBeforeFailing ==
  /\ pc = "start"
  /\ \E result \in {normalizeTransactions(rows, matcher)} :
       IF result.ok
       THEN transactions' = result.transactions /\ pc' = "normalized" /\ written' = written
       ELSE transactions' = transactions /\ pc' = "failed" /\ written' = <<OutputPaths[1]>>
  /\ UNCHANGED <<rulesFile, overridesFile, catInput, catResult, rows, sankeyRuns, vizRuns, inputFile>>

\* main, line 435: const transactions = normalizeTransactions(rows, matcher.categoryFor)
NormalizeTransactions ==
  /\ pc = "start"
  /\ \E result \in {normalizeTransactions(rows, matcher)} :
       IF result.ok
       THEN transactions' = result.transactions /\ pc' = "normalized"
       ELSE transactions' = transactions /\ pc' = "failed"
  /\ UNCHANGED <<rulesFile, overridesFile, catInput, catResult, rows, sankeyRuns, vizRuns, inputFile, written>>

\* the times new Date() can return: the first run's is taken as 1, a later
\* run's is the previous run's or later
Times ==
  IF sankeyRuns = <<>>
  THEN {1}
  ELSE {sankeyRuns[Len(sankeyRuns)].generatedAt, sankeyRuns[Len(sankeyRuns)].generatedAt + 1}

\* a run of buildSankeyData over the transactions: once in main (line 436),
\* again and again over a loaded transaction set
BuildSankeyData ==
  /\ pc \in {"normalized", "loaded"}
  /\ Len(sankeyRuns) < MaxRuns
  /\ \E now \in Times : sankeyRuns' = Append(sankeyRuns, buildSankeyData(transactions, now))
  /\ pc' = IF pc = "normalized" THEN "built" ELSE pc
  /\ UNCHANGED <<rulesFile, overridesFile, catInput, catResult, rows, transactions, vizRuns, inputFile, written>>

Next == NormalizeTransactions \/ BuildSankeyData

Spec == Init /\ [][Next]_vars

(***************************************************************************)
(* Properties of the normalized transactions                               *)
(***************************************************************************)
normalized == pc \in {"normalized", "built"}

\* what the configuration says about a normalized transaction
IdOverrideFor(transaction) ==
  \E i \in 1..Len(overridesFile.overrides) : trim(overridesFile.overrides[i][1]) = transaction.id

NarrativeOverrideFor(transaction) ==
  \E i \in 1..Len(overridesFile.narrative_contains) :
    includes(transaction.narrativeNormalized, normalizeText(overridesFile.narrative_contains[i][1]))

\* some category's first matching needle is not empty
RuleFiresFor(transaction) ==
  \E i \in 1..Len(rulesFile.rules) :
    LET needles == rulesFile.rules[i][2]
    IN \E k \in 1..Len(needles) :
         /\ normalizeText(needles[k]) # <<>>
         /\ includes(transaction.narrativeNormalized, normalizeText(needles[k]))
         /\ \A j \in 1..(k - 1) : ~includes(transaction.narrativeNormalized, normalizeText(needles[j]))

\* some rule needle is a substring of the normalized narrative
RuleNeedleMatchesFor(transaction) ==
  \E i \in 1..Len(rulesFile.rules) :
    \E k \in 1..Len(rulesFile.rules[i][2]) :
      includes(transaction.narrativeNormalized, normalizeText(rulesFile.rules[i][2][k]))

\* C4 as claimed: the default fallback fires only for debit transactions
\* with no override, no rule and a sourceCategory other than INT
C4_UncategorizedOnlyForDebit ==
  \A i \in 1..Len(transactions) :
    transactions[i].categoryReason = R_fallbackUncategorized =>
      /\ transactions[i].direction = "debit"
      /\ ~IdOverrideFor(transactions[i])
      /\ ~NarrativeOverrideFor(transactions[i])
      /\ ~RuleNeedleMatchesFor(transactions[i])
      /\ toUpperCase(transactions[i].sourceCategory) # S_INT

\* C4 amended: the default fallback fires only for debit or neutral
\* transactions, never for a credit, with no id override, no narrative
\* override, no rule category whose first matching needle is non-empty, and
\* a sourceCategory other than INT in any case
C4_UncategorizedNeverForCredit ==
  \A i \in 1..Len(transactions) :
    transactions[i].categoryReason = R_fallbackUncategorized =>
      /\ transactions[i].category = S_Uncategorized
      /\ transactions[i].direction \in {"debit", "neutral"}
      /\ ~IdOverrideFor(transactions[i])
      /\ ~NarrativeOverrideFor(transactions[i])
      /\ ~RuleFiresFor(transactions[i])
      /\ toUpperCase(transactions[i].sourceCategory) # S_INT

C4_Witness ==
  /\ normalized
  /\ \E i, j \in 1..Len(transactions) :
       /\ transactions[i].categoryReason = R_fallbackUncategorized
       /\ transactions[i].direction = "neutral"
       /\ transactions[j].categoryReason = R_fallbackUncategorized
       /\ transactions[j].direction = "debit"

\* C9: direction and amount come from the parsed debit and credit amounts,
\* debit tested first: a positive debit gives debit and amount = debitAmount
\* whatever the credit; otherwise a positive credit gives credit and
\* amount = -creditAmount; otherwise neutral and 0.  So direction is debit
\* iff amount > 0, credit iff amount < 0, neutral iff amount = 0.
C9_DirectionAndAmountFromDebitFirst ==
  \A i \in 1..Len(transactions) :
    LET t == transactions[i]
    IN /\ t.debitAmount > 0 => t.direction = "debit" /\ t.amount = t.debitAmount
       /\ (t.debitAmount <= 0 /\ t.creditAmount > 0) => t.direction = "credit" /\ t.amount = 0 - t.creditAmount
       /\ (t.debitAmount <= 0 /\ t.creditAmount <= 0) => t.direction = "neutral" /\ t.amount = 0
       /\ t.direction = "debit" <=> t.amount > 0
       /\ t.direction = "credit" <=> t.amount < 0
       /\ t.direction = "neutral" <=> t.amount = 0

C9_Witness ==
  /\ normalized
  /\ \E i, j \in 1..Len(transactions) :
       /\ transactions[i].debitAmount > 0
       /\ transactions[i].creditAmount > 0
       /\ transactions[i].direction = "debit"
       /\ transactions[j].debitAmount < 0
       /\ transactions[j].creditAmount > 0
       /\ transactions[j].direction = "credit"

\* C10: every transaction emitted has debitAmount >= 0 and creditAmount >= 0
\* and at most one of the two non-zero
C10_AmountsNonNegativeAndExclusive ==
  \A i \in 1..Len(transactions) :
    /\ transactions[i].debitAmount >= 0
    /\ transactions[i].creditAmount >= 0
    /\ transactions[i].debitAmount = 0 \/ transactions[i].creditAmount = 0

(***************************************************************************)
(* SpecGraph: a graph builder run again and again over one transaction    *)
(* set: buildSankeyData by the CLI, buildVisualization by the page         *)
(***************************************************************************)
MaxTransactions == 4

GraphTransaction(merchant, amount, category) ==
  [merchant |-> merchant, narrative |-> merchant, amount |-> amount,
   direction |-> IF amount > 0 THEN "debit" ELSE IF amount < 0 THEN "credit" ELSE "neutral",
   category |-> category]

GraphTransactionPool ==
  {GraphTransaction(<<"A">>, -400, S_Income),
   GraphTransaction(<<"B">>, -300, S_Income),
   GraphTransaction(<<"C">>, -200, S_Income),
   GraphTransaction(<<"D">>, -100, S_Income),
   GraphTransaction(<<"D">>, -100, <<"P","e","t">>),
   GraphTransaction(<<"A">>, 254, <<"F","o","o","d">>),
   GraphTransaction(<<"B">>, 254, <<"P","e","t">>)}

GraphTransactionLists == UNION {[1..n -> GraphTransactionPool] : n \in 0..MaxTransactions}

InitGraph ==
  /\ rulesFile = NoRules
  /\ overridesFile = NoOverrides
  /\ catInput = None
  /\ catResult = None
  /\ inputFile = None
  /\ written = <<>>
  /\ rows = <<>>
  /\ transactions \in GraphTransactionLists
  /\ pc \in {"loaded", "viewing"}
  /\ sankeyRuns = <<>>
  /\ vizRuns = <<>>

\* a run of buildVisualization, in the page that views the transactions
BuildVisualization ==
  /\ pc = "viewing"
  /\ Len(vizRuns) < MaxRuns
  /\ vizRuns' = Append(vizRuns, buildVisualization(transactions))
  /\ UNCHANGED <<rulesFile, overridesFile, catInput, catResult, rows, transactions, pc, sankeyRuns, inputFile, written>>

NextGraph == BuildSankeyData \/ BuildVisualization

SpecGraph == InitGraph /\ [][NextGraph]_vars

(***************************************************************************)
(* Properties of the graphs                                                *)
(***************************************************************************)
inUnitInterval(percent) == 0 <= percent.num /\ percent.num <= percent.den

\* C5 as claimed: every percent buildVisualization produces, on the nodes
\* and in incomeStats and categoryStats, lies in [0,1]
C5_PercentsInUnitInterval ==
  \A r \in 1..Len(vizRuns) :
    /\ \A i \in 1..Len(vizRuns[r].sankey.nodes) : inUnitInterval(vizRuns[r].sankey.nodes[i].percent)
    /\ \A i \in 1..Len(vizRuns[r].incomeStats) : inUnitInterval(vizRuns[r].incomeStats[i].percent)
    /\ \A i \in 1..Len(vizRuns[r].categoryStats) : inUnitInterval(vizRuns[r].categoryStats[i].percent)

\* the position of the Total Income hub among the nodes of a run
hubPosition(run) == CHOOSE i \in 1..Len(run.sankey.nodes) : run.sankey.nodes[i].kind = "total"

\* C5 amended: every percent is at least 0; the percents of incomeStats and
\* categoryStats, of the income nodes and of the hub lie in [0,1]; the
\* percent of an outflow node (a category or Savings) is its total over
\* total income, 0 when total income is 0, so it lies in [0,1] exactly when
\* total income is 0 or the node's total does not exceed total income
C5_PercentsBoundedByIncome ==
  \A r \in 1..Len(vizRuns) :
    LET nodes == vizRuns[r].sankey.nodes
        hub == hubPosition(vizRuns[r])
    IN /\ \A i \in 1..Len(nodes) : nodes[i].percent.num >= 0 /\ nodes[i].percent.den > 0
       /\ \A i \in 1..hub : inUnitInterval(nodes[i].percent)
       /\ \A i \in (hub + 1)..Len(nodes) :
            inUnitInterval(nodes[i].percent) <=> (nodes[hub].value = 0 \/ nodes[i].value <= nodes[hub].value)
       /\ \A i \in 1..Len(vizRuns[r].incomeStats) : inUnitInterval(vizRuns[r].incomeStats[i].percent)
       /\ \A i \in 1..Len(vizRuns[r].categoryStats) : inUnitInterval(vizRuns[r].categoryStats[i].percent)

C5_Witness ==
  /\ vizRuns # <<>>
  /\ vizRuns[1].totalSpend > vizRuns[1].totalIncome
  /\ vizRuns[1].totalIncome > 0
  /\ Len(vizRuns[1].incomeStats) > 1
  /\ \E i \in 1..Len(vizRuns[1].sankey.nodes) : ~inUnitInterval(vizRuns[1].sankey.nodes[i].percent)

\* the income transactions of the loaded set, their sources and the total
\* of a source, read off the transactions
selectedIncome ==
  IF \E i \in 1..Len(transactions) : IsCategorizedIncome(transactions[i])
  THEN SelectSeq(transactions, IsCategorizedIncome)
  ELSE SelectSeq(transactions, IsFallbackIncome)

incomeSources == {selectedIncome[i].merchant : i \in 1..Len(selectedIncome)}

sourceTotal(source) ==
  sum([i \in 1..Len(selectedIncome) |->
        IF selectedIncome[i].merchant = source THEN 0 - selectedIncome[i].amount ELSE 0])

RECURSIVE sumOfSources(_)
sumOfSources(sources) ==
  IF sources = {} THEN 0
  ELSE LET source == CHOOSE x \in sources : TRUE
       IN sourceTotal(source) + sumOfSources(sources \ {source})

incomeNodesOf(run) == SelectSeq(run.sankey.nodes, LAMBDA node : node.kind = "income")

hubOf(run) == SelectSeq(run.sankey.nodes, LAMBDA node : node.kind = "total")[1]

\* C6: with more than 3 income sources there are exactly 3 individual
\* income nodes, the 3 sources with the largest totals, and exactly one
\* Other Income node with the sum of the other sources (the only node of
\* that name unless a kept source bears it); the four totals sum to total
\* income
C6_TopThreeAndOtherIncome ==
  \A r \in 1..Len(vizRuns) :
    Cardinality(incomeSources) > MaxIncomeSources =>
      LET nodes == incomeNodesOf(vizRuns[r])
          kept == {nodes[i].name : i \in 1..MaxIncomeSources}
      IN /\ Len(nodes) = MaxIncomeSources + 1
         /\ Len(vizRuns[r].incomeStats) = MaxIncomeSources + 1
         /\ Cardinality(kept) = MaxIncomeSources
         /\ kept \subseteq incomeSources
         /\ \A i \in 1..MaxIncomeSources :
              /\ nodes[i].value = sourceTotal(nodes[i].name)
              /\ \A folded \in incomeSources \ kept : nodes[i].value >= sourceTotal(folded)
         /\ nodes[MaxIncomeSources + 1].name = S_OtherIncome
         /\ nodes[MaxIncomeSources + 1].value = sumOfSources(incomeSources \ kept)
         /\ S_OtherIncome \notin kept => Cardinality({i \in 1..Len(nodes) : nodes[i].name = S_OtherIncome}) = 1
         /\ sum([i \in 1..Len(nodes) |-> nodes[i].value]) = hubOf(vizRuns[r]).value
         /\ hubOf(vizRuns[r]).value = sumOfSources(incomeSources)
         /\ vizRuns[r].totalIncome = round2(hubOf(vizRuns[r]).value)

C6_Witness ==
  /\ vizRuns # <<>>
  /\ Cardinality(incomeSources) > MaxIncomeSources
  /\ incomeNodesOf(vizRuns[1])[MaxIncomeSources + 1].name = S_OtherIncome

spendCategories == {transactions[i].category : i \in {k \in 1..Len(transactions) : IsSpendTransaction(transactions[k])}}

rootLinkValues(run) ==
  LET rootLinks == SelectSeq(run.links, LAMBDA link : link.source = 0)
  IN [i \in 1..Len(rootLinks) |-> rootLinks[i].value]

distance(a, b) == IF a >= b THEN a - b ELSE b - a

\* C7: the root-to-category link values of buildSankeyData sum to
\* summary.totalSpend within 0.01 (10 thousandths) times the number of
\* categories
C7_CategoryLinksSumToTotalSpend ==
  \A r \in 1..Len(sankeyRuns) :
    /\ Len(rootLinkValues(sankeyRuns[r])) = Cardinality(spendCategories)
    /\ distance(sum(rootLinkValues(sankeyRuns[r])), sankeyRuns[r].summary.totalSpend)
         <= round2(10) * Cardinality(spendCategories)

C7_Witness ==
  /\ sankeyRuns # <<>>
  /\ Cardinality(spendCategories) = 2
  /\ sum(rootLinkValues(sankeyRuns[1])) # sankeyRuns[1].summary.totalSpend

withoutGeneratedAt(run) == [field \in DOMAIN run \ {"generatedAt"} |-> run[field]]

spendOf == SelectSeq(transactions, IsSpendTransaction)

sortedSpendCategories == keysOf(stableSort(sankeyCategoryTotals(spendOf), byNameAscending))

\* the merchants met when the categories are taken in sorted order and the
\* merchants of each category in sorted order
merchantsInSortedOrder ==
  flatten([i \in 1..Len(sortedSpendCategories) |->
            keysOf(stableSort(mapGet(sankeyMerchantTotals(spendOf), sortedSpendCategories[i]),
                              byNameAscending))])

RECURSIVE firstSeen(_)
firstSeen(names) ==
  IF names = <<>> THEN <<>>
  ELSE LET before == firstSeen(SubSeq(names, 1, Len(names) - 1))
           name == names[Len(names)]
       IN IF \E i \in 1..Len(before) : before[i] = name THEN before ELSE Append(before, name)

namesOf(nodes) == [i \in 1..Len(nodes) |-> nodes[i].name]

\* C11: the nodes of buildSankeyData are Total Spend, then the spend
\* categories in sorted order, then the merchants in first-seen order over
\* the sorted categories with each category's merchants sorted, whatever
\* the order of the transactions
C11_MerchantNodesInSortedCategoryOrder ==
  \A r \in 1..Len(sankeyRuns) :
    namesOf(sankeyRuns[r].nodes) =
      firstSeen(<<S_TotalSpend>> \o sortedSpendCategories \o merchantsInSortedOrder)

(***************************************************************************)
(* SpecMain: one execution of main, from the input file to the last write  *)
(***************************************************************************)
Absent == [absent |-> TRUE]

LenientDate == <<"5","/","3","/","2","6">>

\* records as Papa.parse returns them: a column the file lacks is undefined
RecordPool ==
  {Row(GoodDate, NarrativeA7, <<"$", "4", ".", "5", "0">>, <<>>, <<>>, Undefined),
   Row(GoodDate, NarrativeA7, <<"$", "4", ".", "5", "0">>, <<>>, <<>>, <<"1">>),
   Row(LenientDate, NarrativeA7, <<"$", "4", ".", "5", "0">>, <<>>, <<>>, Undefined),
   Row(BadDate, NarrativeA7, <<"$", "4", ".", "5", "0">>, <<>>, <<>>, Undefined),
   Row(Undefined, NarrativeA7, <<"$", "4", ".", "5", "0">>, <<>>, <<>>, Undefined),
   Row(GoodDate, <<" ">>, <<"$", "4", ".", "5", "0">>, <<>>, <<>>, Undefined)}

InputFiles ==
  {Absent} \cup {[errors |-> errors, data |-> data] :
                   errors \in BOOLEAN, data \in UNION {[1..n -> RecordPool] : n \in 0..MaxRows}}

\* bankRowSchema.parse: Bank Account, Date and Narrative are required strings
IsBankRow(record) ==
  record.BankAccount # Undefined /\ record.Date # Undefined /\ record.Narrative # Undefined

\* the filter of readCsvRows
HasDateAndNarrative(row) == trim(row.Date) # <<>> /\ trim(row.Narrative) # <<>>

\* readCsvRows: the rows, or ok = FALSE when it throws
readCsvRows(file) ==
  IF file.errors \/ \E i \in 1..Len(file.data) : ~IsBankRow(file.data[i])
  THEN [ok |-> FALSE, rows |-> <<>>]
  ELSE [ok |-> TRUE, rows |-> SelectSeq(file.data, HasDateAndNarrative)]

InitMain ==
  /\ rulesFile = NoRules
  /\ overridesFile = NoOverrides
  /\ catInput = None
  /\ catResult = None
  /\ inputFile \in InputFiles
  /\ written = <<>>
  /\ rows = <<>>
  /\ transactions = <<>>
  /\ pc = "main"
  /\ sankeyRuns = <<>>
  /\ vizRuns = <<>>

\* main, lines 423-434: the input file is checked to exist, the
\* configuration is loaded and the rows are read
ReadCsvRows ==
  /\ pc = "main"
  /\ IF inputFile = Absent
     THEN pc' = "absent" /\ rows' = rows
     ELSE IF readCsvRows(inputFile).ok
          THEN pc' = "start" /\ rows' = readCsvRows(inputFile).rows
          ELSE pc' = "invalid" /\ rows' = rows
  /\ UNCHANGED <<rulesFile, overridesFile, catInput, catResult, inputFile, transactions,
                 sankeyRuns, vizRuns, written>>

\* main, lines 441-452: the next writeJsonFile call, which writes the file
\* or throws; the fourth is made only when publishWeb is set and
\* web/public exists
WriteJsonFile ==
  /\ pc = "built"
  /\ Len(written) < Len(OutputPaths)
  /\ \E succeeds \in BOOLEAN :
       IF succeeds
       THEN /\ written' = Append(written, OutputPaths[Len(written) + 1])
            /\ pc' = IF Len(written') = Len(OutputPaths) THEN "done" ELSE "built"
       ELSE written' = written /\ pc' = "writeFailed"
  /\ UNCHANGED <<rulesFile, overridesFile, catInput, catResult, inputFile, rows, transactions,
                 sankeyRuns, vizRuns>>

\* main, lines 445-447: publishWeb is off or web/public does not exist
SkipPublishWeb ==
  /\ pc = "built"
  /\ OutputPaths[Len(written) + 1] = "web/public/sankey.json"
  /\ pc' = "done"
  /\ UNCHANGED <<rulesFile, overridesFile, catInput, catResult, inputFile, rows, transactions,
                 sankeyRuns, vizRuns, written>>

NextMain == ReadCsvRows \/ NormalizeTransactions \/ BuildSankeyData \/ WriteJsonFile \/ SkipPublishWeb

SpecMain == InitMain /\ [][NextMain]_vars

(***************************************************************************)
(* Properties of main                                                      *)
(***************************************************************************)
\* DD/MM/YYYY: two digits, two digits and four digits separated by "/"
IsDayMonthYear(date) ==
  /\ Len(date) = Len(GoodDate)
  /\ \A i \in 1..Len(date) : IF GoodDate[i] = "/" THEN date[i] = "/" ELSE IsDigit(date[i])

\* C12: a transaction is emitted only for a row whose Date, surrounding
\* whitespace aside, has the shape DD/MM/YYYY; a date of any other shape
\* fails the run
C12_OnlyDayMonthYearDatesEmitted ==
  \A i \in 1..Len(transactions) : IsDayMonthYear(trim(rows[i].Date))

\* C13: when main aborts because the input file is absent, a record fails
\* validation or a date does not parse, nothing has been written; and
\* whenever something has been written, every row had been read,
\* normalized and categorized and the graph built
C13_NothingWrittenBeforeFatalError ==
  /\ pc \in {"absent", "invalid", "failed"} => written = <<>>
  /\ written # <<>> =>
       /\ pc \in {"built", "done", "writeFailed"}
       /\ inputFile # Absent
       /\ readCsvRows(inputFile) = [ok |-> TRUE, rows |-> rows]
       /\ normalizeTransactions(rows, matcher) = [ok |-> TRUE, transactions |-> transactions]
       /\ Len(sankeyRuns) = 1

C13_Witness ==
  /\ pc = "failed"
  /\ Len(rows) > 1
  /\ parseDate(rows[1].Date).ok
  /\ written = <<>>

\* C15: the transactions of one run have pairwise different ids
C15_IdsPairwiseDistinct ==
  \A i, j \in 1..Len(transactions) : i # j => transactions[i].id # transactions[j].id

(***************************************************************************)
(* SpecSankeyNames: buildSankeyData over transactions whose merchant and   *)
(* category names coincide                                                 *)
(***************************************************************************)
SankeyNamesPool ==
  {GraphTransaction(<<"A">>, 254, <<"F","o","o","d">>),
   GraphTransaction(<<"A">>, 254, <<"P","e","t">>),
   GraphTransaction(<<"F","o","o","d">>, 254, <<"P","e","t">>),
   GraphTransaction(S_TotalSpend, 254, <<"F","o","o","d">>),
   GraphTransaction(<<"B">>, 254, S_TotalSpend)}

InitSankeyNames ==
  /\ rulesFile = NoRules
  /\ overridesFile = NoOverrides
  /\ catInput = None
  /\ catResult = None
  /\ inputFile = None
  /\ written = <<>>
  /\ rows = <<>>
  /\ transactions \in UNION {[1..n -> SankeyNamesPool] : n \in 0..MaxTransactions}
  /\ pc = "loaded"
  /\ sankeyRuns = <<>>
  /\ vizRuns = <<>>

SpecSankeyNames == InitSankeyNames /\ [][BuildSankeyData]_vars

\* the node indices of the category tier and of the merchant tier
categoryTier == 1..Cardinality(spendCategories)

merchantTier(run) == (Cardinality(spendCategories) + 1)..(Len(run.nodes) - 1)

\* C16: every link of buildSankeyData goes from the root to a category node
\* or from a category node to a merchant node, and the names of a tier are
\* pairwise distinct
C16_ThreeTiers ==
  \A r \in 1..Len(sankeyRuns) :
    LET run == sankeyRuns[r]
    IN /\ \A i \in 1..Len(run.links) :
            \/ run.links[i].source = 0 /\ run.links[i].target \in categoryTier
            \/ run.links[i].source \in categoryTier /\ run.links[i].target \in merchantTier(run)
       /\ \A i, j \in categoryTier : i # j => run.nodes[i + 1].name # run.nodes[j + 1].name
       /\ \A i, j \in merchantTier(run) : i # j => run.nodes[i + 1].name # run.nodes[j + 1].name

(***************************************************************************)
(* SpecVizNames: buildVisualization over transactions with an income       *)
(* source named Other Income and a category named Savings                  *)
(***************************************************************************)
VizNamesPool ==
  {GraphTransaction(S_OtherIncome, -400, S_Income),
   GraphTransaction(<<"B">>, -300, S_Income),
   GraphTransaction(<<"C">>, -200, S_Income),
   GraphTransaction(<<"D">>, -100, S_Income),
   GraphTransaction(<<"E">>, 100, S_Savings),
   GraphTransaction(<<"A">>, 254, <<"F","o","o","d">>)}

InitVizNames ==
  /\ rulesFile = NoRules
  /\ overridesFile = NoOverrides
  /\ catInput = None
  /\ catResult = None
  /\ inputFile = None
  /\ written = <<>>
  /\ rows = <<>>
  /\ transactions \in UNION {[1..n -> VizNamesPool] : n \in 0..MaxTransactions}
  /\ pc = "viewing"
  /\ sankeyRuns = <<>>
  /\ vizRuns = <<>>

SpecVizNames == InitVizNames /\ [][BuildVisualization]_vars

\* total income and total spend of the loaded set, and the savings they leave
incomeOf == sumOfSources(incomeSources)

outflowOf == SelectSeq(transactions, IsOutflowTransaction)

spendTotalOf == sum([i \in 1..Len(outflowOf) |-> outflowOf[i].amount])

savingsOf == IF incomeOf > spendTotalOf THEN incomeOf - spendTotalOf ELSE 0

\* the nodes after the hub
outflowNodesOf(run) == SubSeq(run.sankey.nodes, hubPosition(run) + 1, Len(run.sankey.nodes))

\* C14: savings is max(0, totalIncome - totalSpend), never negative; the
\* outflow list is the category buckets, followed by a Savings bucket of
\* count 0 and total savings exactly when savings > 0, and outflowCount
\* counts the category buckets and that one
C14_SavingsBucketIffPositive ==
  \A r \in 1..Len(vizRuns) :
    LET run == vizRuns[r]
        categories == Len(run.categoryStats)
        outflows == vizOutflowStats(run.categoryStats, savingsOf, incomeOf)
    IN /\ run.savings = round2(savingsOf)
       /\ run.savings >= 0
       /\ run.outflowCount = categories + (IF savingsOf > 0 THEN 1 ELSE 0)
       /\ Len(outflowNodesOf(run)) = run.outflowCount
       /\ \A i \in 1..categories :
            /\ outflowNodesOf(run)[i].name = run.categoryStats[i].category
            /\ outflowNodesOf(run)[i].value = run.categoryStats[i].total
       /\ savingsOf > 0 =>
            /\ outflowNodesOf(run)[categories + 1].name = S_Savings
            /\ outflowNodesOf(run)[categories + 1].value = savingsOf
            /\ outflows[categories + 1].count = 0

C14_Witness ==
  /\ vizRuns # <<>>
  /\ savingsOf > 0
  /\ Len(vizRuns[1].categoryStats) = 2
  /\ vizRuns[1].outflowCount = 3

\* the links of a run that start or end at the node of index i
linksAt(run, i) ==
  SelectSeq(run.sankey.links, LAMBDA link : link.source = i \/ link.target = i)

\* C17: every node but the hub has exactly one link, from an income node
\* to the hub or from the hub to an outflow node, carrying the node's own
\* total
C17_OneLinkPerNode ==
  \A r \in 1..Len(vizRuns) :
    LET run == vizRuns[r]
        hub == hubPosition(run) - 1
    IN \A i \in 0..(Len(run.sankey.nodes) - 1) :
         i # hub =>
           /\ Len(linksAt(run, i)) = 1
           /\ linksAt(run, i)[1].value = round2(run.sankey.nodes[i + 1].value)
           /\ IF i < hub
              THEN linksAt(run, i)[1].source = i /\ linksAt(run, i)[1].target = hub
              ELSE linksAt(run, i)[1].source = hub /\ linksAt(run, i)[1].target = i

nodeValues(nodes) == [i \in 1..Len(nodes) |-> nodes[i].value]

\* C18: when total spend does not exceed total income the outflow buckets
\* sum to total income, the hub's value, which is the sum of the income
\* sources; when it does, no Savings bucket is appended and the outflow
\* buckets sum to total spend, more than the hub's value
C18_HubBalanced ==
  \A r \in 1..Len(vizRuns) :
    LET run == vizRuns[r]
        hub == run.sankey.nodes[hubPosition(run)]
    IN /\ hub.value = incomeOf
       /\ sum(nodeValues(incomeNodesOf(run))) = incomeOf
       /\ IF spendTotalOf <= incomeOf
          THEN sum(nodeValues(outflowNodesOf(run))) = hub.value
          ELSE /\ Len(outflowNodesOf(run)) = Len(run.categoryStats)
               /\ sum(nodeValues(outflowNodesOf(run))) = spendTotalOf
               /\ sum(nodeValues(outflowNodesOf(run))) > hub.value

C18_Witness ==
  /\ vizRuns # <<>>
  /\ spendTotalOf > 0
  /\ spendTotalOf < incomeOf
  /\ Cardinality(incomeSources) > 1
  /\ Len(vizRuns[1].categoryStats) > 1
  /\ sum(nodeValues(outflowNodesOf(vizRuns[1]))) = incomeOf

====
